---- MODULE Spec2Model ----
(***************************************************************************)
(* Model of the two stateful client hooks of the dashboard front end:      *)
(*   - useAIInsight (hooks/useAIInsight.ts): cancellable, cached streaming *)
(*     text requests;                                                      *)
(*   - useRealtime  (hooks/useRealtime.ts): the WebSocket connection       *)
(*     manager with its reconnection policy.                               *)
(*                                                                         *)
(* JavaScript runs every handler to completion, so one action is one       *)
(* synchronous run: a call made by the consumer, or the resumption of an   *)
(* async function at one of its awaits together with everything it does    *)
(* up to the next await.                                                   *)
(***************************************************************************)
EXTENDS Integers, Sequences, FiniteSets, TLC

\* ------------------------------------------------------------------ bounds
MaxReq == 2          \* request activations of generate() tracked at a time
MaxText == 1         \* chunks a response may carry in total
MaxLines == 2        \* lines in one transport read
MaxTransports == 3   \* WebSocket objects alive (not yet closed) at a time
MaxTimers == 2       \* retry timers pending at a time
MaxMsgs == 1         \* parsed frames received while the connection comes and goes
MaxFrames == 3       \* parsed frames received on a connection that stays up
MaxMalformed == 1    \* frames received that fail to parse
MaxSent == 1         \* control frames sent
MaxOwed == 2         \* state updaters React holds back before it renders
MaxWip == 52         \* wip_movement messages received in a run of the ring
MaxAlerts == 102     \* alert messages received in a run of the ring
MaxOther == 1        \* messages of other streams interleaved in a run of a ring
MaxPayloads == 2     \* data lines of one response body

\* --------------------------------------------------------- program constants
KeySliceLen == 200   \* hashKey: .slice(0, 200)
maxReconnectAttempts == 5   \* useRealtime option default
autoConnect == TRUE         \* useRealtime option default
WipCapacity == 50           \* handleMessage: .slice(0, 50)
AlertCapacity == 100        \* handleMessage: .slice(0, 100)

VARIABLES
  cache,          \* module-level Map<string, string>: key -> text
  insightState,   \* useState<InsightState>: [text, isLoading, error]
  abortRef,       \* abortRef.current: activation owning the controller, 0 = null
  req,            \* activations of generate(): pc, key parts, signal, accumulator
  superseded,     \* history: activations in flight when a later generate() was called
  cancelled,      \* history: activations in flight when clear() was called
  cancelledWrites,\* history: activations that executed cache.set after clear() hit them
  cleanDone,      \* history: key parts for which a request completed cleanly
  refetched,      \* history: key parts fetched again after a clean completion
  sinceClear,     \* history: clear() hit an in-flight request, no generate() since
  afterHit        \* history: the last generate()/clear() call was a generate()
                  \* served from the cache

insightVars == <<cache, insightState, abortRef, req, superseded, cancelled,
                 cancelledWrites, cleanDone, refetched, sinceClear, afterHit>>

VARIABLES
  connectionStatus,      \* state.connectionStatus
  connectionId,          \* state.connectionId
  ws,                    \* readyState of every WebSocket this client created
  wsRef,                 \* wsRef.current: a transport, 0 = null
  reconnectAttemptsRef,  \* reconnectAttemptsRef.current
  pendingTimers,         \* setTimeout callbacks scheduled and not yet fired or cleared
  reconnectTimeoutRef,   \* reconnectTimeoutRef.current: a pending timer; 0 = undefined,
                         \* or a timer already fired or cleared (clearTimeout is a no-op)
  statusLog,             \* history: values given to connectionStatus, in order
  scen,                  \* history: events of the reconnection scenario seen so far, -1 = left it
  wsUrl,                 \* the subscriptions query parameter each WebSocket was
                         \* created with; <<>> for a closed one
  afterDisconnect,       \* history: disconnect() was called, no connect() call since
  budgetless             \* history: the transport, not yet open or closed, that a
                         \* connect() call created while reconnect_attempts was at
                         \* max (after disconnect() or a used-up budget); 0 = none

connVars == <<connectionStatus, connectionId, ws, wsRef, reconnectAttemptsRef,
              pendingTimers, reconnectTimeoutRef, statusLog, scen, afterDisconnect,
              budgetless, wsUrl>>

VARIABLES
  store,             \* the per-stream fields of state, with every queued updater applied:
                     \* lastYieldUpdate, equipmentStatuses, recentWIPMovements,
                     \* activeAlerts, metrics, messageCount, lastMessageAt
  owedAlerts,        \* alerts whose state updater (and its onAlert call) React has
                     \* queued for the next render
  sentFrames,        \* control frames handed to WebSocket.send
  framesParsed,      \* history: frames received that parsed
  framesMalformed,   \* history: frames received that failed to parse
  subscribeDropped,  \* history: subscribe/unsubscribe was called while not open
  wipSent,           \* history: wip_movement messages received
  alertsSent,        \* history: alert messages received
  alertsSinceClear   \* history: alert messages received since the list was
                     \* last empty (creation or clearAlerts); -1 from a
                     \* dismissAlert to the next clearAlerts

streamAux == <<owedAlerts, sentFrames, framesParsed, framesMalformed, subscribeDropped,
               wipSent, alertsSent, alertsSinceClear>>

streamVars == <<store, streamAux>>

VARIABLES
  wire,      \* the characters of the response body not yet read
  sent,      \* history: the chunk payloads the server put in the body, in order
  decoded,   \* `accumulated` of the request reading the body
  decodePc   \* "idle", "reading", or "stored" after cache.set

decodeVars == <<wire, sent, decoded, decodePc>>

vars == <<insightVars, connVars, streamVars, decodeVars>>

\* ------------------------------------------------------------ useAIInsight

Req == 1..MaxReq

Chunks == {"a", "b"}

\* JSON.stringify of an array of one-digit numbers: "[d,d,...]"
DigitChar(n) == <<"0", "1", "2", "3", "4", "5", "6", "7", "8", "9">>[n + 1]

JoinDigits(xs) ==
  IF xs = <<>> THEN <<>>
  ELSE [i \in 1..(2 * Len(xs) - 1) |->
          IF i % 2 = 1 THEN DigitChar(xs[(i + 1) \div 2]) ELSE ","]

JSONStringify(results) == <<"[">> \o JoinDigits(results) \o <<"]">>

\* String.prototype.slice(0, n)
Slice(s, n) == IF Len(s) <= n THEN s ELSE SubSeq(s, 1, n)

hashKey(queryType, results) ==
  Slice(queryType \o <<":">> \o JSONStringify(results), KeySliceLen)

\* the inputs of generate(): one short result set and two long ones that
\* differ only in their last row
LongResults(last) == [i \in 1..101 |-> IF i = 101 THEN last ELSE 0]

KeyParts ==
  { [queryType |-> <<"q">>, results |-> <<1>>],
    [queryType |-> <<"q">>, results |-> LongResults(1)],
    [queryType |-> <<"q">>, results |-> LongResults(2)] }

NoParts == [queryType |-> <<>>, results |-> <<>>]

\* an activation that is not running (never started, or returned)
FreeRec == [pc |-> "free", parts |-> NoParts, aborted |-> FALSE, accumulated |-> <<>>]

\* cache.get(key) is truthy
CacheHit(key) == key \in DOMAIN cache /\ cache[key] # <<>>

\* cache.set(key, text)
CacheSet(c, key, text) ==
  [k \in DOMAIN c \cup {key} |-> IF k = key THEN text ELSE c[k]]

InFlight(r) == req[r].pc # "free"

FreeReq == CHOOSE r \in Req : req[r].pc = "free" /\ \A q \in Req : req[q].pc = "free" => r <= q

\* controller.abort() on abortRef.current.  Every await of an activation whose
\* signal has fired rejects, so it never reads its key or accumulator again:
\* they are dropped from its record here.
AbortCurrent(rq) ==
  IF abortRef = 0 \/ rq[abortRef].pc = "free" THEN rq
  ELSE [rq EXCEPT ![abortRef] = [pc |-> rq[abortRef].pc, parts |-> NoParts,
                                 aborted |-> TRUE, accumulated |-> <<>>]]

\* fetch called without { signal }: abort() no longer reaches the transfer
AwaitAbortsNoSignal(r) == FALSE

\* an await on fetch / body / reader rejects with AbortError once the signal fired
AwaitAborts(r) == req[r].aborted

Generate(p) ==
  LET key == hashKey(p.queryType, p.results)
      live == {r \in Req : InFlight(r)} IN
  /\ sinceClear' = FALSE
  /\ afterHit' = CacheHit(key)
  /\ UNCHANGED <<cache, cleanDone>>
  /\ IF CacheHit(key)
     THEN /\ insightState' = [text |-> cache[key], isLoading |-> FALSE, error |-> "null"]
          /\ superseded' = superseded \cup live
          /\ UNCHANGED <<abortRef, req, cancelled, cancelledWrites, refetched>>
     ELSE /\ \E r \in Req : req[r].pc = "free"
          /\ req' = [AbortCurrent(req) EXCEPT
                       ![FreeReq] = [pc |-> "fetch", parts |-> p, aborted |-> FALSE,
                                     accumulated |-> <<>>]]
          /\ abortRef' = FreeReq
          /\ insightState' = [text |-> <<>>, isLoading |-> TRUE, error |-> "null"]
          /\ superseded' = superseded \cup live
          /\ UNCHANGED <<cancelled, cancelledWrites>>
          /\ refetched' = IF p \in cleanDone THEN refetched \cup {p} ELSE refetched

\* a catch block that keeps the text accumulated so far in the cache
CatchErrorCachesPartial(r, isAbort, msg) ==
  /\ req' = [req EXCEPT ![r] = FreeRec]
  /\ superseded' = superseded \ {r}
  /\ cancelled' = cancelled \ {r}
  /\ insightState' = IF isAbort THEN insightState
                     ELSE [insightState EXCEPT !.isLoading = FALSE, !.error = msg]
  /\ cache' = IF isAbort THEN cache
              ELSE CacheSet(cache, hashKey(req[r].parts.queryType, req[r].parts.results),
                            req[r].accumulated)
  /\ UNCHANGED <<abortRef, cancelledWrites, cleanDone>>

\* catch block of generate(): AbortError returns silently, anything else
\* is surfaced through setState(prev => ...)
CatchError(r, isAbort, msg) ==
  /\ req' = [req EXCEPT ![r] = FreeRec]
  /\ superseded' = superseded \ {r}
  /\ cancelled' = cancelled \ {r}
  /\ insightState' = IF isAbort THEN insightState
                     ELSE [insightState EXCEPT !.isLoading = FALSE, !.error = msg]
  /\ UNCHANGED <<cache, abortRef, cancelledWrites, cleanDone>>

\* await fetch(...) settles
FetchSettle(r) ==
  /\ req[r].pc = "fetch"
  /\ UNCHANGED <<refetched, sinceClear, afterHit>>
  /\ IF AwaitAborts(r)
     THEN CatchError(r, TRUE, "null")
     ELSE \/ CatchError(r, FALSE, "network error")
          \/ \* !response.ok
             /\ req' = [req EXCEPT ![r].pc = "json"]
             /\ UNCHANGED <<cache, insightState, abortRef, superseded, cancelled,
                            cancelledWrites, cleanDone>>
          \/ \* response.body is null
             CatchError(r, FALSE, "no stream")
          \/ /\ req' = [req EXCEPT ![r].pc = "read"]
             /\ UNCHANGED <<cache, insightState, abortRef, superseded, cancelled,
                            cancelledWrites, cleanDone>>

\* the JSON bodies of a non-ok response: without and with a detail
ErrorBodies == {[detail |-> ""], [detail |-> "detail"]}

\* errorData.detail || `HTTP ${response.status}`
ErrorMessage(errorData) ==
  IF errorData.detail # "" THEN errorData.detail ELSE "HTTP 500"

\* response.json() resolved with errorData: throw new Error(...), caught
ErrorBodyRead(r, errorData) == CatchError(r, FALSE, ErrorMessage(errorData))

\* await response.json().catch(() => ({})) settles, then throw new Error(...)
ErrorBodySettle(r) ==
  /\ req[r].pc = "json"
  /\ UNCHANGED <<refetched, sinceClear, afterHit>>
  /\ IF AwaitAborts(r)
     THEN \* the rejection is swallowed by .catch(() => ({}))
          ErrorBodyRead(r, [detail |-> ""])
     ELSE \E errorData \in ErrorBodies : ErrorBodyRead(r, errorData)

\* the lines of one decoded read
DataLine(c) == [kind |-> "data", chunk |-> c]
DoneLine == [kind |-> "done", chunk |-> ""]
OtherLine == [kind |-> "other", chunk |-> ""]
Lines == {DataLine(c) : c \in Chunks} \cup {DoneLine, OtherLine}

ReadValues == UNION {[1..n -> Lines] : n \in 0..MaxLines}

\* for (const line of lines) { ... }: the accumulator after the loop
RECURSIVE ProcessLines(_, _)
ProcessLines(acc, lines) ==
  IF lines = <<>> THEN acc
  ELSE LET line == Head(lines) IN
       IF line.kind = "other" THEN ProcessLines(acc, Tail(lines))
       ELSE IF line.kind = "done" THEN acc
       ELSE ProcessLines(Append(acc, line.chunk), Tail(lines))

\* the for loop over the lines of this read reached a '[DONE]' line
ReachedDone(lines) == \E i \in DOMAIN lines : lines[i].kind = "done"

\* await reader.read() settles; pc "drain" is the same await once a '[DONE]'
\* line has been seen in an earlier read
ReadSettle(r) ==
  /\ req[r].pc \in {"read", "drain"}
  /\ UNCHANGED <<refetched, sinceClear, afterHit>>
  /\ IF AwaitAborts(r)
     THEN CatchError(r, TRUE, "null")
     ELSE \/ CatchError(r, FALSE, "network error")
          \/ \* { done: true }: leave the loop, store and publish
             LET key == hashKey(req[r].parts.queryType, req[r].parts.results) IN
             /\ cache' = CacheSet(cache, key, req[r].accumulated)
             /\ insightState' = [text |-> req[r].accumulated, isLoading |-> FALSE,
                                 error |-> "null"]
             /\ req' = [req EXCEPT ![r] = FreeRec]
             /\ superseded' = superseded \ {r}
             /\ cancelled' = cancelled \ {r}
             /\ cancelledWrites' = cancelledWrites \cup ({r} \cap cancelled)
             /\ cleanDone' = cleanDone \cup {req[r].parts}
             /\ UNCHANGED abortRef
          \/ \E value \in ReadValues :
               LET acc == ProcessLines(req[r].accumulated, value) IN
               /\ Len(acc) <= MaxText
               /\ req' = [req EXCEPT ![r].accumulated = acc,
                                     ![r].pc = IF ReachedDone(value) THEN "drain" ELSE @]
               /\ insightState' = IF acc # req[r].accumulated
                                  THEN [insightState EXCEPT !.text = acc]
                                  ELSE insightState
               /\ UNCHANGED <<cache, abortRef, superseded, cancelled, cancelledWrites,
                              cleanDone>>

\* clear()
Clear ==
  /\ req' = AbortCurrent(req)
  /\ insightState' = [text |-> <<>>, isLoading |-> FALSE, error |-> "null"]
  /\ cancelled' = IF abortRef # 0 /\ InFlight(abortRef)
                  THEN cancelled \cup {abortRef} ELSE cancelled
  /\ sinceClear' = (sinceClear \/ (abortRef # 0 /\ InFlight(abortRef)))
  /\ afterHit' = FALSE
  /\ UNCHANGED <<cache, abortRef, superseded, cancelledWrites, cleanDone, refetched>>

\* ------------------------------------------- useAIInsight, the body decoder

\* The body as characters: "d" is the prefix 'data: ', "{" is '{"chunk":"',
\* a chunk is one character, "}" is '"}', "n" is the newline.
DataLineChars(c) == <<"d", "{", c, "}", "n">>
DoneLineChars == <<"d", "[DONE]", "n">>

\* the body of a response carrying the chunk payloads, then the sentinel
RECURSIVE BodyOf(_)
BodyOf(payloads) ==
  IF payloads = <<>> THEN DoneLineChars
  ELSE DataLineChars(Head(payloads)) \o BodyOf(Tail(payloads))

Payloads == UNION {[1..n -> Chunks] : n \in 0..MaxPayloads}

\* chunk.split('\n')
RECURSIVE Split(_, _)
Split(chars, line) ==
  IF chars = <<>> THEN <<line>>
  ELSE IF Head(chars) = "n" THEN <<line>> \o Split(Tail(chars), <<>>)
  ELSE Split(Tail(chars), Append(line, Head(chars)))

\* the kind of one line of a read: the sentinel, a chunk, or a line the loop
\* passes over (no 'data: ' prefix, or a payload JSON.parse rejects)
Classify(line) ==
  IF line = <<>> \/ Head(line) # "d" THEN OtherLine
  ELSE IF Tail(line) = <<"[DONE]">> THEN DoneLine
  ELSE IF Len(line) = 4 /\ line[2] = "{" /\ line[3] \in Chunks /\ line[4] = "}"
       THEN DataLine(line[3])
  ELSE OtherLine

\* one pass of the while loop: decode, split, the for loop
DecodeRead(acc, value) ==
  LET lines == Split(value, <<>>) IN
  ProcessLines(acc, [i \in DOMAIN lines |-> Classify(lines[i])])

\* the server answers a request with a body
Respond(payloads) ==
  /\ decodePc = "idle"
  /\ wire' = BodyOf(payloads)
  /\ sent' = payloads
  /\ decoded' = <<>>
  /\ decodePc' = "reading"

\* reader.read() returns the next k characters of the body
ReadChars(k) ==
  /\ decodePc = "reading"
  /\ k <= Len(wire)
  /\ decoded' = DecodeRead(decoded, SubSeq(wire, 1, k))
  /\ wire' = SubSeq(wire, k + 1, Len(wire))
  /\ UNCHANGED <<sent, decodePc>>

\* reader.read() returns done: cache.set(key, accumulated)
ReadEnd ==
  /\ decodePc = "reading"
  /\ wire = <<>>
  /\ decodePc' = "stored"
  /\ UNCHANGED <<wire, sent, decoded>>

\* --------------------------------------------------------------- useRealtime

Transports == 1..MaxTransports
Timers == 1..MaxTimers

\* the refs and the connection part of the state, as one value the handlers
\* below transform
ConnRec ==
  [connectionStatus |-> connectionStatus, connectionId |-> connectionId,
   ws |-> ws, wsRef |-> wsRef, reconnectAttemptsRef |-> reconnectAttemptsRef,
   pendingTimers |-> pendingTimers, reconnectTimeoutRef |-> reconnectTimeoutRef,
   statusLog |-> statusLog, store |-> store, wsUrl |-> wsUrl]

\* setState(prev => ({ ...prev, connectionStatus: s }))
SetStatus(c, s) ==
  [c EXCEPT !.connectionStatus = s, !.statusLog = Append(@, s)]

\* a WebSocket object that is closed and no longer referenced stands for a new one
CanCreate(c) == \E w \in Transports : c.ws[w] = "CLOSED" /\ w # c.wsRef
NewTransport(c) ==
  CHOOSE w \in Transports :
    /\ c.ws[w] = "CLOSED" /\ w # c.wsRef
    /\ \A v \in Transports : (c.ws[v] = "CLOSED" /\ v # c.wsRef) => w <= v

\* wsRef.current?.readyState === WebSocket.OPEN
CurrentIsOpen(c) == c.wsRef # 0 /\ c.ws[c.wsRef] = "OPEN"

\* the `subscriptions` option (its default)
subscriptions ==
  <<"yield_update", "equipment_status", "wip_movement", "alert", "metrics">>

\* Array.prototype.join(',')
Join(xs) ==
  IF xs = <<>> THEN <<>>
  ELSE [i \in 1..(2 * Len(xs) - 1) |-> IF i % 2 = 1 THEN xs[(i + 1) \div 2] ELSE ","]

\* a connect() that asks for no stream
connectBodyNoSubscriptions(c) ==
  IF CurrentIsOpen(c) THEN c
  ELSE LET w == NewTransport(c) IN
       [SetStatus(c, "connecting") EXCEPT !.ws[w] = "CONNECTING", !.wsRef = w,
                                          !.wsUrl[w] = <<>>]

\* connect(), guarded only by the current transport's readyState
connectBody(c) ==
  IF CurrentIsOpen(c) THEN c
  ELSE LET w == NewTransport(c) IN
       [SetStatus(c, "connecting") EXCEPT !.ws[w] = "CONNECTING", !.wsRef = w,
                                          !.wsUrl[w] = Join(subscriptions)]

CanConnect(c) == CurrentIsOpen(c) \/ CanCreate(c)

\* ws.close()
CloseTransport(readyState) ==
  IF readyState \in {"CONNECTING", "OPEN"} THEN "CLOSING" ELSE readyState

\* disconnect()
disconnectBody(c) ==
  [c EXCEPT !.pendingTimers = @ \ {c.reconnectTimeoutRef},
            !.reconnectTimeoutRef = 0,
            !.reconnectAttemptsRef = maxReconnectAttempts,
            !.ws = IF c.wsRef = 0 THEN @
                   ELSE [@ EXCEPT ![c.wsRef] = CloseTransport(@)],
            !.wsRef = 0]

CanSchedule(c) == \E t \in Timers : t \notin c.pendingTimers
NewTimer(c) ==
  CHOOSE t \in Timers :
    t \notin c.pendingTimers /\ \A u \in Timers : u \notin c.pendingTimers => t <= u

\* reconnectTimeoutRef.current = setTimeout(...)
Schedule(c) ==
  [c EXCEPT !.pendingTimers = @ \cup {NewTimer(c)},
            !.reconnectTimeoutRef = NewTimer(c)]

\* ws.onopen
onopenBody(c, w) ==
  [SetStatus([c EXCEPT !.ws[w] = "OPEN"], "connected")
     EXCEPT !.reconnectAttemptsRef = 0]

\* onclose that goes straight to 'reconnecting' when a retry is due
oncloseSkipDisconnected(c, w) ==
  LET c1 == [c EXCEPT !.ws[w] = "CLOSED", !.connectionId = "null"] IN
  IF c1.reconnectAttemptsRef < maxReconnectAttempts
  THEN Schedule(SetStatus(c1, "reconnecting"))
  ELSE SetStatus(c1, "disconnected")

\* the per-stream fields of the initial state
EmptyStore ==
  [lastYieldUpdate |-> "null", equipmentStatuses |-> {}, recentWIPMovements |-> <<>>,
   activeAlerts |-> <<>>, metrics |-> "null", messageCount |-> 0, lastMessageAt |-> 0]

\* an onclose that starts over with empty streams
oncloseResetsStreams(c, w) ==
  LET c1 == [SetStatus([c EXCEPT !.ws[w] = "CLOSED"], "disconnected")
               EXCEPT !.connectionId = "null", !.store = EmptyStore] IN
  IF c1.reconnectAttemptsRef < maxReconnectAttempts
  THEN Schedule(SetStatus(c1, "reconnecting"))
  ELSE c1

\* ws.onclose
oncloseBody(c, w) ==
  LET c1 == [SetStatus([c EXCEPT !.ws[w] = "CLOSED"], "disconnected")
               EXCEPT !.connectionId = "null"] IN
  IF c1.reconnectAttemptsRef < maxReconnectAttempts
  THEN Schedule(SetStatus(c1, "reconnecting"))
  ELSE c1

\* the setTimeout callback
timerBody(c, t) ==
  connectBody([c EXCEPT !.pendingTimers = @ \ {t},
                        !.reconnectTimeoutRef = IF @ = t THEN 0 ELSE @,
                        !.reconnectAttemptsRef = @ + 1])

\* the reconnection scenario: connect, open, close, two attempts that close
\* without opening, one that opens
Scenario == <<"connect", "open", "close", "timer", "close", "timer", "close",
              "timer", "open">>

ScenNext(event) ==
  IF scen >= 0 /\ scen < Len(Scenario) /\ Scenario[scen + 1] = event
  THEN scen + 1 ELSE -1

\* the handler's result becomes the next state
Commit(c, event) ==
  /\ connectionStatus' = c.connectionStatus
  /\ connectionId' = c.connectionId
  /\ ws' = c.ws
  /\ wsRef' = c.wsRef
  /\ reconnectAttemptsRef' = c.reconnectAttemptsRef
  /\ pendingTimers' = c.pendingTimers
  /\ reconnectTimeoutRef' = c.reconnectTimeoutRef
  /\ store' = c.store
  /\ wsUrl' = [w \in Transports |-> IF c.ws[w] = "CLOSED" THEN <<>> ELSE c.wsUrl[w]]
  /\ scen' = ScenNext(event)
  /\ statusLog' = IF ScenNext(event) >= 0 THEN c.statusLog ELSE <<>>

\* connect() called by the consumer, or by the mount effect
Connect ==
  /\ CanConnect(ConnRec)
  /\ Commit(connectBody(ConnRec), "connect")
  /\ afterDisconnect' = FALSE
  /\ budgetless' = IF CurrentIsOpen(ConnRec) THEN budgetless
                   ELSE IF reconnectAttemptsRef >= maxReconnectAttempts THEN wsRef'
                   ELSE 0
  /\ UNCHANGED streamAux

\* disconnect() called by the consumer, or by the unmount cleanup
Disconnect ==
  /\ Commit(disconnectBody(ConnRec), "disconnect")
  /\ afterDisconnect' = TRUE
  /\ budgetless' = IF budgetless = wsRef THEN 0 ELSE budgetless
  /\ UNCHANGED streamAux

\* the effect runs again (its dependencies changed): cleanup, then connect()
EffectRerun ==
  LET c1 == disconnectBody(ConnRec) IN
  /\ autoConnect
  /\ CanConnect(c1)
  /\ Commit(connectBody(c1), "effect")
  /\ afterDisconnect' = FALSE
  /\ budgetless' = wsRef'
  /\ UNCHANGED streamAux

\* the open event of transport w
OnOpen(w) ==
  /\ ws[w] = "CONNECTING"
  /\ Commit(onopenBody(ConnRec, w), "open")
  /\ budgetless' = IF budgetless = w THEN 0 ELSE budgetless
  /\ UNCHANGED <<afterDisconnect, streamAux>>

\* the close event of transport w: failure to connect, peer close, network
\* loss, or completion of ws.close()
OnClose(w) ==
  /\ ws[w] \in {"CONNECTING", "OPEN", "CLOSING"}
  /\ reconnectAttemptsRef < maxReconnectAttempts => CanSchedule(ConnRec)
  /\ Commit(oncloseBody(ConnRec, w), "close")
  /\ budgetless' = IF budgetless = w THEN 0 ELSE budgetless
  /\ UNCHANGED <<afterDisconnect, streamAux>>

\* retry timer t fires
TimerFire(t) ==
  LET c1 == [ConnRec EXCEPT !.pendingTimers = @ \ {t}] IN
  /\ t \in pendingTimers
  /\ CanConnect(c1)
  /\ Commit(timerBody(ConnRec, t), "timer")
  /\ UNCHANGED <<afterDisconnect, budgetless, streamAux>>

\* ------------------------------------------------------ useRealtime, streams

EquipmentIds == {"EQ1"}
EquipmentStates == {"RUNNING", "DOWN"}

\* the messages of each stream, as JSON.parse returns them; movements and
\* alerts carry the ordinal of their arrival as identifier
HeartbeatMsgs ==
  {[stream_type |-> "heartbeat", data |-> [connection_id |-> id]] : id \in {"", "c1"}}
YieldMsgs == {[stream_type |-> "yield_update", data |-> "y1"]}
EquipmentMsgs ==
  {[stream_type |-> "equipment_status",
    data |-> [equipment_id |-> e, status |-> st, previous_status |-> pst]] :
      e \in EquipmentIds, st \in EquipmentStates, pst \in EquipmentStates}
WipMsgs == {[stream_type |-> "wip_movement", data |-> [lot_id |-> wipSent + 1]]}
\* the n-th alert to arrive
Alert(n) ==
  [alert_id |-> n,
   severity |-> IF n % 3 = 1 THEN "CRITICAL" ELSE IF n % 3 = 2 THEN "WARNING" ELSE "ERROR"]
AlertMsgs == {[stream_type |-> "alert", data |-> Alert(alertsSent + 1)]}
MetricsMsgs == {[stream_type |-> "metrics", data |-> "m1"]}
UnknownMsgs == {[stream_type |-> "quality_event", data |-> "q1"]}

\* newEquipMap.set(equipStatus.equipment_id, equipStatus)
MapSet(map, rec) ==
  {x \in map : x.equipment_id # rec.equipment_id} \cup {rec}

\* an updater that counts the message and leaves lastMessageAt alone
newStateKeepsTimestamp(prev, now) == [prev EXCEPT !.messageCount = @ + 1]

\* { ...prev, messageCount: prev.messageCount + 1, lastMessageAt: new Date() }
newState(prev, now) == [prev EXCEPT !.messageCount = @ + 1, !.lastMessageAt = now]

\* a movement list that grows at its tail
PrependWipAtTail(list, wipMovement) == Slice(list \o <<wipMovement>>, WipCapacity)

\* [wipMovement, ...prev.recentWIPMovements].slice(0, 50)
PrependWip(list, wipMovement) == Slice(<<wipMovement>> \o list, WipCapacity)

\* an alert list that is never cut
PrependAlertUncut(list, alert) == <<alert>> \o list

\* [alert, ...prev.activeAlerts].slice(0, 100)
PrependAlert(list, alert) == Slice(<<alert>> \o list, AlertCapacity)

\* the state updater of handleMessage, applied to the state
handleMessage(c, m, now) ==
  LET s0 == newState(c.store, now) IN
  CASE m.stream_type = "heartbeat" ->
         IF m.data.connection_id # ""
         THEN [c EXCEPT !.store = s0, !.connectionId = m.data.connection_id]
         ELSE [c EXCEPT !.store = s0]
    [] m.stream_type = "yield_update" ->
         [c EXCEPT !.store = [s0 EXCEPT !.lastYieldUpdate = m.data]]
    [] m.stream_type = "equipment_status" ->
         [c EXCEPT !.store = [s0 EXCEPT !.equipmentStatuses = MapSet(@, m.data)]]
    [] m.stream_type = "wip_movement" ->
         [c EXCEPT !.store = [s0 EXCEPT !.recentWIPMovements = PrependWip(@, m.data)]]
    [] m.stream_type = "alert" ->
         [c EXCEPT !.store = [s0 EXCEPT !.activeAlerts = PrependAlert(@, m.data)]]
    [] m.stream_type = "metrics" ->
         [c EXCEPT !.store = [s0 EXCEPT !.metrics = m.data]]
    [] OTHER -> [c EXCEPT !.store = s0]

\* an onmessage whose catch block tears the connection down
onmessageClosesOnError(c, w, frame, now) ==
  IF frame.parses THEN handleMessage(c, frame.message, now)
  ELSE SetStatus([c EXCEPT !.ws[w] = "CLOSING"], "disconnected")

\* ws.onmessage: JSON.parse, handleMessage; a parse error is logged
onmessageBody(c, w, frame, now) ==
  IF frame.parses THEN handleMessage(c, frame.message, now)
  ELSE c

ParsedFrame(m) == [parses |-> TRUE, message |-> m]
MalformedFrame == [parses |-> FALSE, message |-> [stream_type |-> "", data |-> ""]]

\* clearAlerts()
clearAlertsBody(c) == [c EXCEPT !.store.activeAlerts = <<>>]

\* prev.activeAlerts.filter(a => a.alert_id !== alertId)
dismissAlertBody(c, alertId) ==
  [c EXCEPT !.store.activeAlerts = SelectSeq(@, LAMBDA a : a.alert_id # alertId)]

StreamArgs == {<<"alert">>}

\* a subscribe that sends whatever the readyState
subscribeUnguarded(c, frames, streams) ==
  Append(frames, [action |-> "subscribe", streams |-> streams])

\* subscribe(streams): the frames sent so far, after the call
subscribe(c, frames, streams) ==
  IF CurrentIsOpen(c)
  THEN Append(frames, [action |-> "subscribe", streams |-> streams])
  ELSE frames

\* unsubscribe(streams)
unsubscribe(c, frames, streams) ==
  IF CurrentIsOpen(c)
  THEN Append(frames, [action |-> "unsubscribe", streams |-> streams])
  ELSE frames

\* a return value whose errorAlerts view selects the warnings
useRealtimeReturnWrongView(c) ==
  [connectionStatus |-> c.connectionStatus,
   activeAlerts |-> c.store.activeAlerts,
   equipmentStatuses |-> c.store.equipmentStatuses,
   isConnected |-> (c.connectionStatus = "connected"),
   criticalAlerts |-> SelectSeq(c.store.activeAlerts, LAMBDA a : a.severity = "CRITICAL"),
   errorAlerts |-> SelectSeq(c.store.activeAlerts, LAMBDA a : a.severity = "WARNING"),
   warningAlerts |-> SelectSeq(c.store.activeAlerts, LAMBDA a : a.severity = "WARNING"),
   runningEquipment |-> {e \in c.store.equipmentStatuses : e.status = "RUNNING"},
   downEquipment |-> {e \in c.store.equipmentStatuses : e.status = "DOWN"}]

\* what a render of the hook returns for state c: the state and the views
\* computed from it
useRealtimeReturn(c) ==
  [connectionStatus |-> c.connectionStatus,
   activeAlerts |-> c.store.activeAlerts,
   equipmentStatuses |-> c.store.equipmentStatuses,
   isConnected |-> (c.connectionStatus = "connected"),
   criticalAlerts |-> SelectSeq(c.store.activeAlerts, LAMBDA a : a.severity = "CRITICAL"),
   errorAlerts |-> SelectSeq(c.store.activeAlerts, LAMBDA a : a.severity = "ERROR"),
   warningAlerts |-> SelectSeq(c.store.activeAlerts, LAMBDA a : a.severity = "WARNING"),
   runningEquipment |-> {e \in c.store.equipmentStatuses : e.status = "RUNNING"},
   downEquipment |-> {e \in c.store.equipmentStatuses : e.status = "DOWN"}]

\* a message event on transport w
OnMessage(w, frame) ==
  LET now == framesParsed + framesMalformed + 1
      type == frame.message.stream_type IN
  /\ ws[w] = "OPEN"
  /\ Commit(onmessageBody(ConnRec, w, frame, now), "message")
  /\ framesParsed' = IF frame.parses THEN framesParsed + 1 ELSE framesParsed
  /\ framesMalformed' = IF frame.parses THEN framesMalformed ELSE framesMalformed + 1
  /\ wipSent' = IF type = "wip_movement" THEN wipSent + 1 ELSE wipSent
  /\ alertsSent' = IF type = "alert" THEN alertsSent + 1 ELSE alertsSent
  /\ alertsSinceClear' = IF type = "alert" /\ alertsSinceClear >= 0
                         THEN alertsSinceClear + 1 ELSE alertsSinceClear
  /\ IF type = "alert"
     THEN \/ \* React runs the updater, and onAlert in it, inside setState
             /\ owedAlerts = <<>>
             /\ UNCHANGED owedAlerts
          \/ \* React queues the updater for the next render
             /\ Len(owedAlerts) < MaxOwed
             /\ owedAlerts' = Append(owedAlerts, frame.message.data.alert_id)
     ELSE UNCHANGED owedAlerts
  /\ UNCHANGED <<afterDisconnect, budgetless, sentFrames, subscribeDropped>>

\* React renders the component: the queued updaters run
Render ==
  /\ owedAlerts # <<>>
  /\ owedAlerts' = <<>>
  /\ UNCHANGED <<connVars, store, sentFrames, framesParsed, framesMalformed,
                 subscribeDropped, wipSent, alertsSent, alertsSinceClear>>

\* clearAlerts() called by the consumer
ClearAlerts ==
  /\ Commit(clearAlertsBody(ConnRec), "clearAlerts")
  /\ alertsSinceClear' = 0
  /\ UNCHANGED <<afterDisconnect, budgetless, owedAlerts, sentFrames, framesParsed, framesMalformed,
                 subscribeDropped, wipSent, alertsSent>>

\* dismissAlert(alertId) called by the consumer
DismissAlert(alertId) ==
  /\ Commit(dismissAlertBody(ConnRec, alertId), "dismissAlert")
  /\ alertsSinceClear' = -1
  /\ UNCHANGED <<afterDisconnect, budgetless, owedAlerts, sentFrames, framesParsed, framesMalformed,
                 subscribeDropped, wipSent, alertsSent>>

\* subscribe(streams) called by the consumer
Subscribe(streams) ==
  /\ Len(sentFrames) < MaxSent
  /\ sentFrames' = subscribe(ConnRec, sentFrames, streams)
  /\ subscribeDropped' = (subscribeDropped \/ ~CurrentIsOpen(ConnRec))
  /\ UNCHANGED <<connVars, store, owedAlerts, framesParsed, framesMalformed,
                 wipSent, alertsSent, alertsSinceClear>>

\* unsubscribe(streams) called by the consumer
Unsubscribe(streams) ==
  /\ Len(sentFrames) < MaxSent
  /\ sentFrames' = unsubscribe(ConnRec, sentFrames, streams)
  /\ subscribeDropped' = (subscribeDropped \/ ~CurrentIsOpen(ConnRec))
  /\ UNCHANGED <<connVars, store, owedAlerts, framesParsed, framesMalformed,
                 wipSent, alertsSent, alertsSinceClear>>

\* both hooks right after construction
Init ==
  /\ cache = <<>>
  /\ insightState = [text |-> <<>>, isLoading |-> FALSE, error |-> "null"]
  /\ abortRef = 0
  /\ req = [r \in Req |-> FreeRec]
  /\ superseded = {}
  /\ cancelled = {}
  /\ cancelledWrites = {}
  /\ cleanDone = {}
  /\ refetched = {}
  /\ sinceClear = FALSE
  /\ afterHit = FALSE
  /\ connectionStatus = "disconnected"
  /\ connectionId = "null"
  /\ ws = [w \in Transports |-> "CLOSED"]
  /\ wsRef = 0
  /\ reconnectAttemptsRef = 0
  /\ pendingTimers = {}
  /\ reconnectTimeoutRef = 0
  /\ statusLog = <<>>
  /\ scen = 0
  /\ afterDisconnect = FALSE
  /\ budgetless = 0
  /\ wsUrl = [w \in Transports |-> <<>>]
  /\ store = EmptyStore
  /\ owedAlerts = <<>>
  /\ sentFrames = <<>>
  /\ framesParsed = 0
  /\ framesMalformed = 0
  /\ subscribeDropped = FALSE
  /\ wipSent = 0
  /\ alertsSent = 0
  /\ alertsSinceClear = 0
  /\ wire = <<>>
  /\ sent = <<>>
  /\ decoded = <<>>
  /\ decodePc = "idle"

\* useAIInsight alone: the connection client is not mounted
NextInsight ==
  \/ \E p \in KeyParts : Generate(p) /\ UNCHANGED <<connVars, streamVars, decodeVars>>
  \/ \E r \in Req : FetchSettle(r) /\ UNCHANGED <<connVars, streamVars, decodeVars>>
  \/ \E r \in Req : ErrorBodySettle(r) /\ UNCHANGED <<connVars, streamVars, decodeVars>>
  \/ \E r \in Req : ReadSettle(r) /\ UNCHANGED <<connVars, streamVars, decodeVars>>
  \/ Clear /\ UNCHANGED <<connVars, streamVars, decodeVars>>

SpecInsight == Init /\ [][NextInsight]_vars

\* useRealtime alone: no insight request is made
NextConn ==
  \/ Connect /\ UNCHANGED <<insightVars, decodeVars>>
  \/ Disconnect /\ UNCHANGED <<insightVars, decodeVars>>
  \/ EffectRerun /\ UNCHANGED <<insightVars, decodeVars>>
  \/ \E w \in Transports : OnOpen(w) /\ UNCHANGED <<insightVars, decodeVars>>
  \/ \E w \in Transports : OnClose(w) /\ UNCHANGED <<insightVars, decodeVars>>
  \/ \E t \in Timers : TimerFire(t) /\ UNCHANGED <<insightVars, decodeVars>>

\* one request reading one response body, split into reads in every way
NextDecode ==
  \/ \E payloads \in Payloads :
       Respond(payloads) /\ UNCHANGED <<insightVars, connVars, streamVars>>
  \/ \E k \in 1..Len(wire) :
       ReadChars(k) /\ UNCHANGED <<insightVars, connVars, streamVars>>
  \/ ReadEnd /\ UNCHANGED <<insightVars, connVars, streamVars>>

SpecDecode == Init /\ [][NextDecode]_vars

SpecConn == Init /\ [][NextConn]_vars

AnyMsgs ==
  HeartbeatMsgs \cup YieldMsgs \cup EquipmentMsgs \cup WipMsgs \cup AlertMsgs
    \cup MetricsMsgs \cup UnknownMsgs

\* one message of each stream that keeps data
StreamMsgs ==
  YieldMsgs \cup WipMsgs \cup AlertMsgs \cup MetricsMsgs
    \cup {m \in EquipmentMsgs : m.data.status = "DOWN" /\ m.data.previous_status = "RUNNING"}

\* useRealtime with its streams, while the connection comes and goes
NextStream ==
  \/ Connect /\ UNCHANGED <<insightVars, decodeVars>>
  \/ Disconnect /\ UNCHANGED <<insightVars, decodeVars>>
  \/ EffectRerun /\ UNCHANGED <<insightVars, decodeVars>>
  \/ \E w \in Transports : OnOpen(w) /\ UNCHANGED <<insightVars, decodeVars>>
  \/ \E w \in Transports : OnClose(w) /\ UNCHANGED <<insightVars, decodeVars>>
  \/ \E t \in Timers : TimerFire(t) /\ UNCHANGED <<insightVars, decodeVars>>
  \/ \E w \in Transports, m \in StreamMsgs :
       /\ framesParsed < MaxMsgs
       /\ OnMessage(w, ParsedFrame(m))
       /\ UNCHANGED <<insightVars, decodeVars>>
  \/ Render /\ UNCHANGED <<insightVars, decodeVars>>
  \/ ClearAlerts /\ UNCHANGED <<insightVars, decodeVars>>
  \/ \E id \in 1..MaxMsgs : DismissAlert(id) /\ UNCHANGED <<insightVars, decodeVars>>

SpecStream == Init /\ [][NextStream]_vars

\* useRealtime over several connection epochs, with the consumer calling
\* subscribe/unsubscribe at any time and movements arriving
NextEpochs ==
  \/ Connect /\ UNCHANGED <<insightVars, decodeVars>>
  \/ Disconnect /\ UNCHANGED <<insightVars, decodeVars>>
  \/ EffectRerun /\ UNCHANGED <<insightVars, decodeVars>>
  \/ \E w \in Transports : OnOpen(w) /\ UNCHANGED <<insightVars, decodeVars>>
  \/ \E w \in Transports : OnClose(w) /\ UNCHANGED <<insightVars, decodeVars>>
  \/ \E t \in Timers : TimerFire(t) /\ UNCHANGED <<insightVars, decodeVars>>
  \/ \E w \in Transports, m \in WipMsgs :
       /\ framesParsed < MaxMsgs
       /\ OnMessage(w, ParsedFrame(m))
       /\ UNCHANGED <<insightVars, decodeVars>>
  \/ \E st \in StreamArgs : Subscribe(st) /\ UNCHANGED <<insightVars, decodeVars>>
  \/ \E st \in StreamArgs : Unsubscribe(st) /\ UNCHANGED <<insightVars, decodeVars>>

SpecEpochs == Init /\ [][NextEpochs]_vars

\* useRealtime on a connection that is opened once and stays up: frames of
\* every stream, and frames that do not parse
NextMessages ==
  \/ wsRef = 0 /\ Connect /\ UNCHANGED <<insightVars, decodeVars>>
  \/ \E w \in Transports : OnOpen(w) /\ UNCHANGED <<insightVars, decodeVars>>
  \/ \E w \in Transports, m \in AnyMsgs :
       /\ framesParsed < MaxFrames
       /\ OnMessage(w, ParsedFrame(m))
       /\ UNCHANGED <<insightVars, decodeVars>>
  \/ \E w \in Transports :
       /\ framesMalformed < MaxMalformed
       /\ OnMessage(w, MalformedFrame)
       /\ UNCHANGED <<insightVars, decodeVars>>
  \/ Render /\ UNCHANGED <<insightVars, decodeVars>>
  \/ ClearAlerts /\ UNCHANGED <<insightVars, decodeVars>>
  \/ \E id \in 1..MaxFrames : DismissAlert(id) /\ UNCHANGED <<insightVars, decodeVars>>

SpecMessages == Init /\ [][NextMessages]_vars

\* useRealtime on a connection that stays up, receiving a long run of
\* wip_movement messages with a few messages of the other streams among them
NextWip ==
  \/ wsRef = 0 /\ Connect /\ UNCHANGED <<insightVars, decodeVars>>
  \/ \E w \in Transports : OnOpen(w) /\ UNCHANGED <<insightVars, decodeVars>>
  \/ \E w \in Transports, m \in WipMsgs :
       /\ wipSent < MaxWip
       /\ OnMessage(w, ParsedFrame(m))
       /\ UNCHANGED <<insightVars, decodeVars>>
  \/ \E w \in Transports, m \in AnyMsgs \ WipMsgs :
       /\ framesParsed - wipSent < MaxOther
       /\ OnMessage(w, ParsedFrame(m))
       /\ UNCHANGED <<insightVars, decodeVars>>
  \/ Render /\ UNCHANGED <<insightVars, decodeVars>>

SpecWip == Init /\ [][NextWip]_vars

\* useRealtime on a connection that stays up, receiving a long run of alert
\* messages; the consumer clears the list at any time, and may dismiss the
\* newest alert once before it first clears
NextAlerts ==
  \/ wsRef = 0 /\ Connect /\ UNCHANGED <<insightVars, decodeVars>>
  \/ \E w \in Transports : OnOpen(w) /\ UNCHANGED <<insightVars, decodeVars>>
  \/ \E w \in Transports, m \in AlertMsgs :
       /\ alertsSent < MaxAlerts
       /\ OnMessage(w, ParsedFrame(m))
       /\ UNCHANGED <<insightVars, decodeVars>>
  \/ Render /\ UNCHANGED <<insightVars, decodeVars>>
  \/ ClearAlerts /\ UNCHANGED <<insightVars, decodeVars>>
  \/ /\ alertsSent > 0
     /\ alertsSinceClear = alertsSent
     /\ DismissAlert(alertsSent)
     /\ UNCHANGED <<insightVars, decodeVars>>

SpecAlerts == Init /\ [][NextAlerts]_vars

\* ------------------------------------------------- properties, useAIInsight

\* a step taken by activation r itself (not the abort() another call does on it)
OwnStep(r) ==
  /\ InFlight(r)
  /\ req'[r] # req[r]
  /\ ~(req'[r].aborted /\ ~req[r].aborted)

\* C1: once generate(B) has been called while generate(A) was in flight, no
\* step of A's request writes the cache or changes the consumer-visible
\* text, isLoading or error.
C1_SupersededIsSilent ==
  [][\A r \in Req :
       (r \in superseded /\ OwnStep(r))
         => (cache' = cache /\ insightState' = insightState)]_vars

\* C2: after a request for some key parts completed cleanly, a later
\* generate() with the same key parts never issues another fetch.
C2_NoSecondFetch == refetched = {}

\* C3: a request that was in flight when clear() was called never executes
\* cache.set, in that step or any later one.
C3_CancelledNeverCached == cancelledWrites = {}

\* clear() has hit a request that was reading its stream
C3_Witness == \E r \in Req : r \in cancelled /\ req[r].pc = "read"

\* C4: from a clear() that hit an in-flight request until the next
\* generate(), error stays null and isLoading stays false.
C4_AbortIsBenign ==
  sinceClear => (insightState.error = "null" /\ ~insightState.isLoading)

\* C11: cache entries are write-once: a key that is in the cache stays in it
\* and its stored text is never replaced.
C11_WriteOnce ==
  [][\A k \in DOMAIN cache : k \in DOMAIN cache' /\ cache'[k] = cache[k]]_vars

\* request r ends in this step and the consumer is shown an error
FailureStep(r) ==
  /\ InFlight(r)
  /\ req'[r] = FreeRec
  /\ insightState'.error # "null"

\* C20: a request whose non-success response body has been read ends with
\* error set to the body's detail when it has one and to 'HTTP <status>'
\* otherwise, and isLoading false; and a request that ends in failure (HTTP
\* error, or transport error while streaming) leaves the cache as it was.
C20_FailureSurfaced ==
  [][\A r \in Req :
       /\ \A errorData \in ErrorBodies :
            (req[r].pc = "json" /\ ~AwaitAborts(r) /\ ErrorBodyRead(r, errorData))
              => /\ insightState'.error =
                      (IF errorData = [detail |-> "detail"] THEN "detail" ELSE "HTTP 500")
                 /\ ~insightState'.isLoading
       /\ FailureStep(r) => cache' = cache]_vars

\* a stream that had delivered text failed, and nothing is cached
C20_Witness ==
  /\ insightState.error = "network error"
  /\ insightState.text # <<>>
  /\ ~insightState.isLoading
  /\ cache = <<>>

\* C21: once a '[DONE]' line has been received, no step of the request
\* appends a chunk to the accumulated text or publishes one.
C21_SentinelEndsStream ==
  [][\A r \in Req :
       (req[r].pc = "drain" /\ OwnStep(r) /\ req'[r].pc # "free")
         => (req'[r].accumulated = req[r].accumulated /\ insightState' = insightState)]_vars

\* C26: a generate(queryType, results) call that is served from the cache
\* publishes a text that an earlier completed request with the same
\* (queryType, results) produced.
C26_KeysDoNotCollide ==
  [][\A p \in KeyParts :
       (Generate(p) /\ CacheHit(hashKey(p.queryType, p.results)))
         => p \in cleanDone]_vars

\* C27: when a request has completed, the text it accumulated and stored is
\* the concatenation, in order, of the chunk payloads the server sent before
\* the sentinel, however the body was split into reads.
C27_SplitIndependent == decodePc = "stored" => decoded = sent

\* C28: a generate(K) call served from the cache leaves {text = cached text
\* of K, isLoading = false, error = null}, and the consumer-visible state
\* stays so until the next generate() or clear() call.
C28_HitStateStable ==
  [][/\ \A p \in KeyParts :
          (Generate(p) /\ afterHit')
            => insightState' = [text |-> cache[hashKey(p.queryType, p.results)],
                                isLoading |-> FALSE, error |-> "null"]
     /\ (afterHit /\ afterHit' /\ ~(\E p \in KeyParts : Generate(p)))
          => insightState' = insightState]_vars

\* -------------------------------------------------- properties, useRealtime

LiveTransports == {w \in Transports : ws[w] \in {"CONNECTING", "OPEN"}}

\* a step that starts a transport that was not there before
CreatesTransport == \E w \in Transports : ws[w] = "CLOSED" /\ ws'[w] = "CONNECTING"

\* C5: in every reachable state reconnect_attempts is at most
\* maxReconnectAttempts (the bound the claim's second half, no retry once the
\* budget is used up, rests on).
C5_RetryBudget == reconnectAttemptsRef <= maxReconnectAttempts

\* C6 (as stated): after connect, open, close, two attempts that close
\* without opening and one that opens, the status values were connecting,
\* connected, disconnected, reconnecting, connecting, reconnecting,
\* connecting, connected, and reconnect_attempts is 0.
C6_ScenarioAsStated ==
  scen = Len(Scenario) =>
    /\ statusLog = <<"connecting", "connected", "disconnected", "reconnecting",
                     "connecting", "reconnecting", "connecting", "connected">>
    /\ reconnectAttemptsRef = 0

\* C6 (amended): in that scenario every close is followed by 'disconnected'
\* then 'reconnecting', and each of the three retries by 'connecting'; the
\* final open gives 'connected' and resets reconnect_attempts to 0.
C6_ScenarioLog ==
  scen = Len(Scenario) =>
    /\ statusLog = <<"connecting", "connected",
                     "disconnected", "reconnecting", "connecting",
                     "disconnected", "reconnecting", "connecting",
                     "disconnected", "reconnecting", "connecting", "connected">>
    /\ reconnectAttemptsRef = 0

\* the scenario has been played to its end
C6_Witness == scen = Len(Scenario) /\ connectionStatus = "connected"

\* C7: from disconnect() until the caller calls connect() again, no retry
\* timer fires and no new transport is started.
C7_DisconnectIsFinal ==
  [][(afterDisconnect /\ afterDisconnect')
       => (~(\E t \in Timers : TimerFire(t)) /\ ~CreatesTransport)]_vars

\* C8: at most one transport of the client is connecting or open.
C8_SingleConnection == Cardinality(LiveTransports) <= 1

\* C9: at most one retry timer is pending.
C9_SingleTimer == Cardinality(pendingTimers) <= 1

\* C10: connect() called while a transport is open creates no transport and
\* leaves connectionStatus, connectionId and reconnect_attempts unchanged.
C10_ConnectIdempotent ==
  [][((\E w \in Transports : ws[w] = "OPEN") /\ Connect)
       => UNCHANGED <<connectionStatus, connectionId, ws, wsRef, reconnectAttemptsRef,
                      pendingTimers, reconnectTimeoutRef>>]_vars

\* the changes of connectionStatus a step makes, as pairs <<from, to>>: onclose
\* sets 'disconnected' and then, when a retry is due, 'reconnecting'; every
\* other handler sets at most one value
StatusEdges ==
  LET pairs == IF \E w \in Transports : OnClose(w)
               THEN {<<connectionStatus, "disconnected">>} \cup
                    (IF connectionStatus' = "reconnecting"
                     THEN {<<"disconnected", "reconnecting">>} ELSE {})
               ELSE {<<connectionStatus, connectionStatus'>>}
  IN {e \in pairs : e[1] # e[2]}

\* C23: connectionStatus changes only along the edges of the stated state
\* machine: disconnected to connecting, connecting to connected, connected to
\* disconnected, disconnected to reconnecting, reconnecting to connecting.
C23_OnlyMachineEdges ==
  [][StatusEdges \subseteq
       {<<"disconnected", "connecting">>, <<"connecting", "connected">>,
        <<"connected", "disconnected">>, <<"disconnected", "reconnecting">>,
        <<"reconnecting", "connecting">>}]_vars

\* no transport can fire an event any more and no retry timer is pending
Quiescent ==
  /\ \A w \in Transports : ws[w] = "CLOSED"
  /\ pendingTimers = {}

\* C24: once disconnect() has been called and nothing is left to happen (every
\* transport closed, no timer pending), connectionStatus is 'disconnected',
\* until the next connect(); in particular it is not left at 'reconnecting'.
C24_DisconnectSettles ==
  (afterDisconnect /\ Quiescent) => connectionStatus = "disconnected"

\* C25: the open and close events of a transport that is not wsRef.current
\* change neither connectionStatus nor connectionId and schedule no retry;
\* and while wsRef.current is open, connectionStatus is 'connected'.
C25_StaleEventsIgnored ==
  [][/\ \A w \in Transports :
          (w # wsRef /\ (OnOpen(w) \/ OnClose(w)))
            => /\ connectionStatus' = connectionStatus
               /\ connectionId' = connectionId
               /\ pendingTimers' = pendingTimers
     /\ (CurrentIsOpen(ConnRec) /\ connectionStatus = "connected"
           /\ wsRef' = wsRef /\ ws'[wsRef] = "OPEN")
          => connectionStatus' = "connected"]_vars

\* C29: reconnect_attempts goes back to 0 only in an open event; and when
\* the transport of a connect() call made with reconnect_attempts at max
\* closes without having opened, no retry is scheduled and the status is left
\* at 'disconnected'.
C29_ConnectKeepsBudget ==
  [][/\ (reconnectAttemptsRef' = 0 /\ reconnectAttemptsRef # 0)
          => \E w \in Transports : OnOpen(w)
     /\ \A w \in Transports :
          (w = budgetless /\ OnClose(w))
            => (connectionStatus' = "disconnected" /\ pendingTimers' = pendingTimers)]_vars

\* ------------------------------------------- properties, useRealtime streams

\* the records the map holds for equipment id e
RecordsOf(map, e) == {x \in map : x.equipment_id = e}

\* C12: when an equipment_status message arrives for an id the map already
\* holds, the map afterwards holds exactly one record for the id, the
\* message's record, and its previous_status is the status of the record it
\* replaced.
C12_PreviousStatus ==
  [][\A w \in Transports, m \in EquipmentMsgs :
       (/\ OnMessage(w, ParsedFrame(m))
        /\ RecordsOf(store.equipmentStatuses, m.data.equipment_id) # {})
         => /\ RecordsOf(store'.equipmentStatuses, m.data.equipment_id) = {m.data}
            /\ \A old \in RecordsOf(store.equipmentStatuses, m.data.equipment_id) :
                 m.data.previous_status = old.status]_vars

Min(a, b) == IF a <= b THEN a ELSE b

\* C13: after N wip_movement messages, with messages of other streams among
\* them, recentWIPMovements has length min(N, 50) and lists the most recent
\* movements, the newest first, in the order of arrival.
C13_WipRing ==
  store.recentWIPMovements =
    [i \in 1..Min(wipSent, 50) |-> [lot_id |-> wipSent - i + 1]]

\* more movements than the list keeps have arrived, with another message
\* among them
C13_Witness ==
  /\ wipSent > 50
  /\ framesParsed > wipSent
  /\ Len(store.recentWIPMovements) = 50

\* C14: after N alert messages since the list was last empty, with no
\* clearAlerts/dismissAlert among them, activeAlerts holds exactly the
\* min(N, 100) most recent alerts, the newest first; and its length is at most
\* 100 in every reachable state.
C14_AlertRing ==
  /\ Len(store.activeAlerts) <= 100
  /\ alertsSinceClear >= 0
       => store.activeAlerts =
            [i \in 1..Min(alertsSinceClear, 100) |-> Alert(alertsSent - i + 1)]

\* more alerts than the list keeps have arrived since clearAlerts()
C14_Witness ==
  /\ alertsSinceClear > 100
  /\ alertsSent > alertsSinceClear
  /\ Len(store.activeAlerts) = 100

\* C15: onAlert has been invoked for every alert whose handling has returned:
\* no alert is still waiting for its onAlert call after onmessage is done
\* with it (and so while onMessage runs and later messages are handled).
C15_OnAlertSynchronous == owedAlerts = <<>>

\* a step of the connection's life cycle: connect, disconnect, the effect's
\* cleanup and re-run, and the open, close and retry-timer events
ConnectionStep ==
  \/ Connect
  \/ Disconnect
  \/ EffectRerun
  \/ \E w \in Transports : OnOpen(w)
  \/ \E w \in Transports : OnClose(w)
  \/ \E t \in Timers : TimerFire(t)

Elems(list) == {list[i] : i \in DOMAIN list}

\* C16: transport close, reconnection and disconnect() leave the per-stream
\* state as it was; and in any step, what the per-stream state held is still
\* there afterwards, except for alerts removed by clearAlerts/dismissAlert and
\* entries evicted from a full ring.
C16_StreamStateSurvives ==
  [][/\ ConnectionStep => store' = store
     /\ store.lastYieldUpdate # "null" => store'.lastYieldUpdate # "null"
     /\ store.metrics # "null" => store'.metrics # "null"
     /\ store'.messageCount >= store.messageCount
     /\ store'.lastMessageAt >= store.lastMessageAt
     /\ \A x \in store.equipmentStatuses :
          RecordsOf(store'.equipmentStatuses, x.equipment_id) # {}
     /\ \/ Elems(store.recentWIPMovements) \subseteq Elems(store'.recentWIPMovements)
        \/ Len(store'.recentWIPMovements) = 50
     /\ \/ Elems(store.activeAlerts) \subseteq Elems(store'.activeAlerts)
        \/ Len(store'.activeAlerts) = 100
        \/ ClearAlerts
        \/ \E id \in 1..MaxMsgs : DismissAlert(id)]_vars

\* a retry is under way and the streams still hold what was received before
\* the transport closed
C16_Witness ==
  /\ store.messageCount > 0
  /\ reconnectAttemptsRef > 0
  /\ reconnectAttemptsRef < maxReconnectAttempts
  /\ connectionStatus = "connecting"

\* C17: subscribe/unsubscribe called while the connection is not open sends
\* nothing and changes no state; and a frame is only ever sent by a call made
\* while the connection is open, which sends that call's own frame, so a
\* dropped request is never sent later.
C17_DroppedNotReplayed ==
  [][/\ \A st \in StreamArgs :
          ((Subscribe(st) \/ Unsubscribe(st)) /\ ~CurrentIsOpen(ConnRec))
            => (sentFrames' = sentFrames /\ store' = store /\ connVars' = connVars)
     /\ sentFrames' # sentFrames
          => /\ CurrentIsOpen(ConnRec)
             /\ \E st \in StreamArgs :
                  \/ /\ Subscribe(st)
                     /\ sentFrames' =
                          Append(sentFrames, [action |-> "subscribe", streams |-> st])
                  \/ /\ Unsubscribe(st)
                     /\ sentFrames' =
                          Append(sentFrames, [action |-> "unsubscribe", streams |-> st])]_vars

\* a request was dropped, the connection has since opened, and no frame was
\* sent
C17_Witness ==
  /\ subscribeDropped
  /\ CurrentIsOpen(ConnRec)
  /\ connectionStatus = "connected"
  /\ reconnectAttemptsRef = 0
  /\ sentFrames = <<>>

\* C18: a frame that fails to parse changes no state (messageCount,
\* lastMessageAt and the collections included), leaves every transport as it
\* was, open ones open, and leaves connectionStatus as it was.
C18_MalformedDropped ==
  [][\A w \in Transports :
       OnMessage(w, MalformedFrame)
         => /\ store' = store
            /\ ws' = ws /\ ws'[w] = "OPEN"
            /\ wsRef' = wsRef
            /\ connectionStatus' = connectionStatus
            /\ connectionId' = connectionId]_vars

\* a well-formed frame was processed after a frame that failed to parse
C18_Witness ==
  /\ framesMalformed > 0
  /\ store.messageCount > 0
  /\ store.lastMessageAt > store.messageCount
  /\ connectionStatus = "connected"

\* C19: every parsed message, of whatever stream_type, adds exactly 1 to
\* messageCount and sets lastMessageAt to the time of its arrival; one of an
\* unrecognized type changes nothing else; and messageCount equals the number
\* of parsed frames received since the client was created.
C19_EveryMessageCounted ==
  [][/\ \A w \in Transports, m \in AnyMsgs :
          OnMessage(w, ParsedFrame(m))
            => /\ store'.messageCount = store.messageCount + 1
               /\ store'.lastMessageAt = framesParsed + framesMalformed + 1
               /\ store'.lastMessageAt > store.lastMessageAt
     /\ \A w \in Transports, m \in UnknownMsgs :
          OnMessage(w, ParsedFrame(m))
            => /\ store' = [store EXCEPT !.messageCount = @ + 1,
                                         !.lastMessageAt = store'.lastMessageAt]
               /\ UNCHANGED <<connectionStatus, connectionId, ws, wsRef,
                              reconnectAttemptsRef, pendingTimers,
                              reconnectTimeoutRef>>
     /\ store'.messageCount = framesParsed']_vars

\* two frames were counted, one was not, and nothing else was recorded
C19_Witness ==
  /\ store.messageCount = 2
  /\ framesMalformed = 1
  /\ store.lastMessageAt = 3
  /\ [store EXCEPT !.messageCount = 0, !.lastMessageAt = 0] = EmptyStore

\* the alerts of list with severity sev, in the order of list
BySeverity(list, sev) == SelectSeq(list, LAMBDA a : a.severity = sev)

\* C22: in the value a render returns, every derived view is the filter of
\* the canonical collection returned with it: the three alert views by
\* severity, the two equipment views by status, isConnected by status.
C22_ViewsMatchState ==
  LET ret == useRealtimeReturn(ConnRec) IN
  /\ ret.criticalAlerts = BySeverity(ret.activeAlerts, "CRITICAL")
  /\ ret.errorAlerts = BySeverity(ret.activeAlerts, "ERROR")
  /\ ret.warningAlerts = BySeverity(ret.activeAlerts, "WARNING")
  /\ ret.runningEquipment = {e \in ret.equipmentStatuses : e.status = "RUNNING"}
  /\ ret.downEquipment = {e \in ret.equipmentStatuses : e.status = "DOWN"}
  /\ ret.isConnected = (ret.connectionStatus = "connected")

\* alerts of two severities are held after a dismissAlert, and an equipment
\* is down
C22_Witness ==
  /\ alertsSinceClear = -1
  /\ BySeverity(store.activeAlerts, "CRITICAL") # <<>>
  /\ BySeverity(store.activeAlerts, "WARNING") # <<>>
  /\ store.equipmentStatuses # {}
  /\ connectionStatus = "connected"

\* C30: every transport that is not closed was created with exactly the
\* subscription set of the options, and no step of the connection's life cycle
\* sends a control frame: frames of an earlier epoch are not sent again.
C30_EpochsStartFromOptions ==
  [][/\ \A w \in Transports :
          ws'[w] # "CLOSED"
            => wsUrl'[w] = <<"yield_update", ",", "equipment_status", ",", "wip_movement",
                             ",", "alert", ",", "metrics">>
     /\ ConnectionStep => sentFrames' = sentFrames]_vars

\* a retry has created a transport after a control frame was sent on an
\* earlier one
C30_Witness ==
  /\ sentFrames # <<>>
  /\ reconnectAttemptsRef > 0
  /\ reconnectAttemptsRef < maxReconnectAttempts
  /\ wsRef # 0
  /\ ws[wsRef] = "CONNECTING"

====
